---- MODULE Spec2Model ----
(***************************************************************************)
(* Model of the CLT payroll calculation core (src/src/core).               *)
(*                                                                         *)
(* The core is a set of pure functions.  Each function is an operator,     *)
(* computed branch by branch as the TypeScript source computes it, and     *)
(* each call of a function is an action that evaluates it on arguments     *)
(* drawn from bounded sets and records the value returned.                 *)
(*                                                                         *)
(* Number representation (the source uses IEEE doubles; the model uses     *)
(* exact decimal arithmetic on scaled integers):                           *)
(*   - a time string "HH:mm" is the sequence of its characters, the empty  *)
(*     string is << >>;                                                    *)
(*   - minutes are counted in fifths of a minute, so that a break given    *)
(*     in hundredths of an hour is an integer (0.01 h = 3 fifths);         *)
(*   - hours are counted in 1/300 h, so that both two-decimal hours        *)
(*     (0.01 h = 3 units) and 220/30 h (= 2200 units) are integers;        *)
(*   - hourly rates are counted in 1/440 cent per hour, so that            *)
(*     salary/220*1.5 and salary/220*2.0 are integers for a salary in      *)
(*     cents;                                                              *)
(*   - a gross amount is a pair <<c, f>> standing for c + f/GrossDen       *)
(*     cents, 0 <= f < GrossDen;                                           *)
(*   - an INSS amount is a pair <<m, f>> standing for m + f/GrossDen       *)
(*     thousandths of a cent.                                              *)
(*                                                                         *)
(* Rounding.  Math.round(x * 100) / 100 rounds half up, and so does the    *)
(* model wherever x * 100 is not exactly a half.  When x * 100 is exactly  *)
(* a half in decimal arithmetic, the double the code rounds lies within    *)
(* an ulp of the half, on either side of it (20.9 / 220 * 100 evaluates to *)
(* 9.499999999999998), and Math.round goes up or down accordingly.  The    *)
(* variable tieUp stands for that outcome: TRUE when the exact halves of   *)
(* the call are rounded up, FALSE when its doubles fall below the half     *)
(* and are rounded down.  It is drawn with the arguments of the call.      *)
(***************************************************************************)
EXTENDS Integers, Sequences, FiniteSets, TLC

VARIABLES pc, fn, args, ret, prev, locals, tieUp,
          appSettings, layoutDays, rows

\* the state of the user interface: the settings held by App, the days
\* held by Layout and the local state of each DayRow
uiVars == <<appSettings, layoutDays, rows>>

vars == <<pc, fn, args, ret, prev, locals, tieUp,
          appSettings, layoutDays, rows>>

(***************************************************************************)
(* Bounds of the explored input space.                                     *)
(***************************************************************************)
\* clock times have an hour that is a multiple of HourStep ...
HourStep == 3
\* ... and a minute that is a multiple of MinuteStep
MinuteStep == 20
\* breaks are 0 .. MaxBreak half hours
MaxBreak == 3
\* gross amounts lie within MaxDelta cents of 0 and of each INSS bracket
\* boundary ...
MaxDelta == 1
\* ... or are one of the multiples 0 .. MaxGrossK of GrossStep cents
MaxGrossK == 9
GrossStep == 100000
\* overtime hour totals are 0 .. MaxHoursK times HoursStep hundredths of an
\* hour
MaxHoursK == 3
HoursStep == 133
\* monthly salaries are 0 .. MaxSalaryK times SalaryStep cents
MaxSalaryK == 2
SalaryStep == 11000
\* rest days and working days of a period are counted up to MaxDays
MaxDays == 3
\* the longest list of day records handed to calculateMonthlySummary
MaxMonthDays == 3
\* the longest list of day records handed to handleDayUpdate
MaxUpdateDays == 2
\* the longest list of day records handed to handleSettingsChange
MaxChangeDays == 1
\* the days of the month that Layout shows, counted from the first
MaxUIDays == 2

(***************************************************************************)
(* Generic arithmetic helpers.                                             *)
(***************************************************************************)
Max(a, b) == IF a >= b THEN a ELSE b

Min(a, b) == IF a <= b THEN a ELSE b

\* Math.round(n / d) for n >= 0 and d > 0: half up, except that an exact half
\* is rounded down when the doubles of the call fall below it (~tieUp)
MathRound(n, d) ==
    IF 2 * (n % d) = d /\ ~tieUp THEN n \div d
    ELSE (2 * n + d) \div (2 * d)

(***************************************************************************)
(* time.ts                                                                 *)
(***************************************************************************)
Digits == <<"0", "1", "2", "3", "4", "5", "6", "7", "8", "9">>

\* the value of one decimal digit character
DigitVal(c) == (CHOOSE i \in 1..10 : Digits[i] = c) - 1

\* Number(s) of JavaScript for a string of decimal digits (Number("") is 0)
RECURSIVE ToNumber(_)
ToNumber(s) ==
    IF Len(s) = 0 THEN 0
    ELSE ToNumber(SubSeq(s, 1, Len(s) - 1)) * 10 + DigitVal(s[Len(s)])

\* the not-a-number value of JavaScript, which every arithmetic operation
\* propagates and every comparison rejects
NaN == -2000000000

\* time.split(':') restricted to its first two parts; a missing second part
\* (no colon in the string) is undefined, written << "undefined" >>
SplitColon(s) ==
    LET colons == {i \in 1..Len(s) : s[i] = ":"}
    IN  IF colons = {} THEN <<s, <<"undefined">>>>
        ELSE LET p1 == CHOOSE i \in colons : \A j \in colons : i <= j
                 later == {i \in colons : i > p1}
                 p2 == IF later = {} THEN Len(s) + 1
                       ELSE CHOOSE i \in later : \A j \in later : i <= j
             IN  <<SubSeq(s, 1, p1 - 1), SubSeq(s, p1 + 1, p2 - 1)>>

\* Number(x) for a part produced by split: a digit string, or undefined
NumberOf(part) ==
    IF part = <<"undefined">> THEN NaN ELSE ToNumber(part)

\* minutes since 00:00 of an "HH:mm" string
parseHourToMinutes(time) ==
    LET parts == SplitColon(time)
        hours == NumberOf(parts[1])
        minutes == NumberOf(parts[2])
    IN  IF hours = NaN \/ minutes = NaN THEN NaN ELSE hours * 60 + minutes

\* calculateWorkedMinutes without the clamp to zero
calculateWorkedMinutes_NoClamp(entrada, saida, intervaloHoras) ==
    LET entradaMinutes == parseHourToMinutes(entrada)
        saidaMinutes == parseHourToMinutes(saida)
    IN  IF entradaMinutes = NaN \/ saidaMinutes = NaN THEN NaN
        ELSE (saidaMinutes - entradaMinutes) * 5 - intervaloHoras * 3

\* worked time in fifths of a minute; intervaloHoras in hundredths of an hour
calculateWorkedMinutes(entrada, saida, intervaloHoras) ==
    LET entradaMinutes == parseHourToMinutes(entrada)
        saidaMinutes == parseHourToMinutes(saida)
        intervaloMinutes == intervaloHoras * 3
        totalMinutes == (saidaMinutes - entradaMinutes) * 5
        workedMinutes == totalMinutes - intervaloMinutes
    IN  IF entradaMinutes = NaN \/ saidaMinutes = NaN THEN NaN
        ELSE Max(0, workedMinutes)

\* minutesToDecimalHours without the rounding: minutes / 60 in 1/300 h
minutesToDecimalHours_Unrounded(m5) == m5

\* Math.round(minutes / 60 * 100) / 100 for minutes >= 0 given in fifths of
\* a minute: minutes/60*100 = m5/3, rounded half up (m5/3 is never an exact
\* half for an integer m5); result in 1/300 h
minutesToDecimalHours(m5) ==
    IF m5 = NaN THEN NaN ELSE 3 * ((2 * m5 + 3) \div 6)

(***************************************************************************)
(* calculations.ts: calculateDailyResult                                   *)
(***************************************************************************)
DailyHoursResult(n, e50, e100) ==
    [horasNormais |-> n, horasExtra50 |-> e50, horasExtra100 |-> e100]

\* a <= b of JavaScript: false when an operand is NaN
NumLeq(a, b) == a # NaN /\ b # NaN /\ a <= b

\* a - b of JavaScript
NumSub(a, b) == IF a = NaN \/ b = NaN THEN NaN ELSE a - b

\* calculateDailyResult with the rest-day rule tested before the holiday rule
calculateDailyResult_FolgaFirst(entrada, saida, intervaloHoras, ehFeriado, ehFolga, jornadaPadraoHoras) ==
    IF Len(entrada) = 0 \/ Len(saida) = 0
    THEN DailyHoursResult(0, 0, 0)
    ELSE LET horasTrabalhadasTotal == minutesToDecimalHours(
                 calculateWorkedMinutes(entrada, saida, intervaloHoras))
         IN  IF ehFolga
             THEN DailyHoursResult(0, horasTrabalhadasTotal, 0)
             ELSE IF ehFeriado
             THEN DailyHoursResult(0, 0, horasTrabalhadasTotal)
             ELSE IF NumLeq(horasTrabalhadasTotal, jornadaPadraoHoras)
             THEN DailyHoursResult(horasTrabalhadasTotal, 0, 0)
             ELSE DailyHoursResult(jornadaPadraoHoras,
                      NumSub(horasTrabalhadasTotal, jornadaPadraoHoras), 0)

\* calculateDailyResult keeping all the worked hours as normal hours when
\* the day exceeds the standard daily hours
calculateDailyResult_Uncapped(entrada, saida, intervaloHoras, ehFeriado, ehFolga, jornadaPadraoHoras) ==
    IF Len(entrada) = 0 \/ Len(saida) = 0
    THEN DailyHoursResult(0, 0, 0)
    ELSE LET horasTrabalhadasTotal == minutesToDecimalHours(
                 calculateWorkedMinutes(entrada, saida, intervaloHoras))
         IN  IF ehFeriado
             THEN DailyHoursResult(0, 0, horasTrabalhadasTotal)
             ELSE IF ehFolga
             THEN DailyHoursResult(0, horasTrabalhadasTotal, 0)
             ELSE IF NumLeq(horasTrabalhadasTotal, jornadaPadraoHoras)
             THEN DailyHoursResult(horasTrabalhadasTotal, 0, 0)
             ELSE DailyHoursResult(horasTrabalhadasTotal,
                      NumSub(horasTrabalhadasTotal, jornadaPadraoHoras), 0)

\* calculateDailyResult without the rest-day rule: a worked rest day is
\* classified as an ordinary day
calculateDailyResult_NoFolgaRule(entrada, saida, intervaloHoras, ehFeriado, ehFolga, jornadaPadraoHoras) ==
    IF Len(entrada) = 0 \/ Len(saida) = 0
    THEN DailyHoursResult(0, 0, 0)
    ELSE LET horasTrabalhadasTotal == minutesToDecimalHours(
                 calculateWorkedMinutes(entrada, saida, intervaloHoras))
         IN  IF ehFeriado
             THEN DailyHoursResult(0, 0, horasTrabalhadasTotal)
             ELSE IF NumLeq(horasTrabalhadasTotal, jornadaPadraoHoras)
             THEN DailyHoursResult(horasTrabalhadasTotal, 0, 0)
             ELSE DailyHoursResult(jornadaPadraoHoras,
                      NumSub(horasTrabalhadasTotal, jornadaPadraoHoras), 0)

\* calculateDailyResult returning zeros only when both times are empty
calculateDailyResult_GuardAnd(entrada, saida, intervaloHoras, ehFeriado, ehFolga, jornadaPadraoHoras) ==
    IF Len(entrada) = 0 /\ Len(saida) = 0
    THEN DailyHoursResult(0, 0, 0)
    ELSE LET horasTrabalhadasTotal == minutesToDecimalHours(
                 calculateWorkedMinutes(entrada, saida, intervaloHoras))
         IN  IF ehFeriado
             THEN DailyHoursResult(0, 0, horasTrabalhadasTotal)
             ELSE IF ehFolga
             THEN DailyHoursResult(0, horasTrabalhadasTotal, 0)
             ELSE IF NumLeq(horasTrabalhadasTotal, jornadaPadraoHoras)
             THEN DailyHoursResult(horasTrabalhadasTotal, 0, 0)
             ELSE DailyHoursResult(jornadaPadraoHoras,
                      NumSub(horasTrabalhadasTotal, jornadaPadraoHoras), 0)

\* hours in 1/300 h; jornadaPadraoHoras in 1/300 h
calculateDailyResult(entrada, saida, intervaloHoras, ehFeriado, ehFolga, jornadaPadraoHoras) ==
    IF Len(entrada) = 0 \/ Len(saida) = 0
    THEN DailyHoursResult(0, 0, 0)
    ELSE LET minutosTrabalhadosTotal ==
                 calculateWorkedMinutes(entrada, saida, intervaloHoras)
             horasTrabalhadasTotal ==
                 minutesToDecimalHours(minutosTrabalhadosTotal)
         IN  IF ehFeriado
             THEN DailyHoursResult(0, 0, horasTrabalhadasTotal)
             ELSE IF ehFolga
             THEN DailyHoursResult(0, horasTrabalhadasTotal, 0)
             ELSE IF NumLeq(horasTrabalhadasTotal, jornadaPadraoHoras)
             THEN DailyHoursResult(horasTrabalhadasTotal, 0, 0)
             ELSE LET horasNormais == jornadaPadraoHoras
                      horasExtra50 == NumSub(horasTrabalhadasTotal,
                                             jornadaPadraoHoras)
                  IN  DailyHoursResult(horasNormais, horasExtra50, 0)

(***************************************************************************)
(* Amounts with a fractional part: <<w, f>> is w + f/GrossDen units.       *)
(* GrossDen is the common denominator of every gross amount the monthly    *)
(* summary can produce from a salary in cents: 220 (hours per month) * 2   *)
(* (the 1.5 premium) * 100 (hundredths of an hour).                        *)
(***************************************************************************)
GrossDen == 220 * 2 * 100

\* a <= b
QLeq(a, b) == a[1] < b[1] \/ (a[1] = b[1] /\ a[2] <= b[2])

\* a + b
QAdd(a, b) ==
    <<a[1] + b[1] + ((a[2] + b[2]) \div GrossDen), (a[2] + b[2]) % GrossDen>>

\* a - b, for a >= b
QSub(a, b) ==
    IF a[2] >= b[2] THEN <<a[1] - b[1], a[2] - b[2]>>
    ELSE <<a[1] - b[1] - 1, a[2] + GrossDen - b[2]>>

\* k * a for a natural number k
QScale(k, a) ==
    <<k * a[1] + ((k * a[2]) \div GrossDen), (k * a[2]) % GrossDen>>

\* the whole amount of c units
Whole(c) == <<c, 0>>

(***************************************************************************)
(* calculations.ts: calculateINSS                                          *)
(* valorBruto in cents; the value returned in thousandths of a cent, so    *)
(* that the rate 0.075 is the factor 75, 0.09 is 90, 0.12 is 120 and 0.14  *)
(* is 140.  1412.00 is 141200 cents, 2666.68 is 266668, 4000.03 is 400003  *)
(* and 7786.02 is 778602.                                                  *)
(***************************************************************************)
\* calculateINSS without the final else branch: inss keeps its initial 0
\* above the ceiling
calculateINSS_NoCeilingBranch(valorBruto) ==
    IF QLeq(valorBruto, Whole(141200))
    THEN QScale(75, valorBruto)
    ELSE IF QLeq(valorBruto, Whole(266668))
    THEN QAdd(Whole(141200 * 75),
              QScale(90, QSub(valorBruto, Whole(141200))))
    ELSE IF QLeq(valorBruto, Whole(400003))
    THEN QAdd(Whole(141200 * 75 + (266668 - 141200) * 90),
              QScale(120, QSub(valorBruto, Whole(266668))))
    ELSE IF QLeq(valorBruto, Whole(778602))
    THEN QAdd(Whole(141200 * 75 + (266668 - 141200) * 90
                    + (400003 - 266668) * 120),
              QScale(140, QSub(valorBruto, Whole(400003))))
    ELSE Whole(0)

\* calculateINSS applying the rate of the bracket of the gross to the whole
\* gross from the second bracket on (a flat instead of a marginal rate)
calculateINSS_FlatRate(valorBruto) ==
    IF QLeq(valorBruto, Whole(141200))
    THEN QScale(75, valorBruto)
    ELSE IF QLeq(valorBruto, Whole(266668))
    THEN QScale(90, valorBruto)
    ELSE IF QLeq(valorBruto, Whole(400003))
    THEN QScale(120, valorBruto)
    ELSE IF QLeq(valorBruto, Whole(778602))
    THEN QScale(140, valorBruto)
    ELSE QScale(140, Whole(778602))

\* calculateINSS whose third branch forgets the contribution of the first
\* bracket
calculateINSS_Bracket3Base(valorBruto) ==
    IF QLeq(valorBruto, Whole(141200))
    THEN QScale(75, valorBruto)
    ELSE IF QLeq(valorBruto, Whole(266668))
    THEN QAdd(Whole(141200 * 75),
              QScale(90, QSub(valorBruto, Whole(141200))))
    ELSE IF QLeq(valorBruto, Whole(400003))
    THEN QAdd(Whole((266668 - 141200) * 90),
              QScale(120, QSub(valorBruto, Whole(266668))))
    ELSE IF QLeq(valorBruto, Whole(778602))
    THEN QAdd(Whole(141200 * 75 + (266668 - 141200) * 90
                    + (400003 - 266668) * 120),
              QScale(140, QSub(valorBruto, Whole(400003))))
    ELSE Whole(141200 * 75 + (266668 - 141200) * 90
               + (400003 - 266668) * 120 + (778602 - 400003) * 140)

calculateINSS(valorBruto) ==
    \* Faixa 1: ate 1412,00 = 7,5%
    IF QLeq(valorBruto, Whole(141200))
    THEN QScale(75, valorBruto)
    \* Faixa 2: 1412,01 ate 2666,68 = 9%
    ELSE IF QLeq(valorBruto, Whole(266668))
    THEN QAdd(Whole(141200 * 75),
              QScale(90, QSub(valorBruto, Whole(141200))))
    \* Faixa 3: 2666,69 ate 4000,03 = 12%
    ELSE IF QLeq(valorBruto, Whole(400003))
    THEN QAdd(Whole(141200 * 75 + (266668 - 141200) * 90),
              QScale(120, QSub(valorBruto, Whole(266668))))
    \* Faixa 4: 4000,04 ate 7786,02 = 14%
    ELSE IF QLeq(valorBruto, Whole(778602))
    THEN QAdd(Whole(141200 * 75 + (266668 - 141200) * 90
                    + (400003 - 266668) * 120),
              QScale(140, QSub(valorBruto, Whole(400003))))
    \* Acima do teto: desconto maximo
    ELSE Whole(141200 * 75 + (266668 - 141200) * 90
               + (400003 - 266668) * 120 + (778602 - 400003) * 140)

\* Math.round(descontoINSS * 100) / 100 at the call site, in cents: an INSS
\* amount of m + f/GrossDen thousandths of a cent, rounded half up (an exact
\* half as in MathRound)
RoundINSS(inss) ==
    IF inss[1] % 1000 = 500 /\ inss[2] = 0 /\ ~tieUp THEN inss[1] \div 1000
    ELSE (inss[1] + 500) \div 1000

(***************************************************************************)
(* calculations.ts: calculateDSR                                           *)
(* hour totals in hundredths of an hour, rates in 1/440 cent per hour, so  *)
(* the overtime value is counted in 1/GrossDen cent; the value returned is *)
(* in cents.                                                               *)
(***************************************************************************)
\* calculateDSR with the ratio inverted (diasUteis / diasRepouso)
calculateDSR_InvertedRatio(horasExtra50Total, horasExtra100Total, valorHoraExtra50, valorHoraExtra100, diasRepouso, diasUteis) ==
    LET valorTotalHorasExtras == horasExtra50Total * valorHoraExtra50
                                 + horasExtra100Total * valorHoraExtra100
    IN  IF diasUteis = 0 \/ diasRepouso = 0 THEN 0
        ELSE MathRound(valorTotalHorasExtras * diasUteis,
                       GrossDen * diasRepouso)

calculateDSR(horasExtra50Total, horasExtra100Total, valorHoraExtra50, valorHoraExtra100, diasRepouso, diasUteis) ==
    LET valorHorasExtras50 == horasExtra50Total * valorHoraExtra50
        valorHorasExtras100 == horasExtra100Total * valorHoraExtra100
        valorTotalHorasExtras == valorHorasExtras50 + valorHorasExtras100
    IN  IF diasUteis = 0 \/ diasRepouso = 0 THEN 0
        \* dsr = valorTotalHorasExtras * (diasRepouso / diasUteis), then
        \* Math.round(dsr * 100) / 100: dsr * 100 is n / d cents for
        \* n = valorTotalHorasExtras * diasRepouso and d = GrossDen * diasUteis
        ELSE MathRound(valorTotalHorasExtras * diasRepouso,
                       GrossDen * diasUteis)

(***************************************************************************)
(* calculations.ts: calculateMonthlySummary                                *)
(* a day record is [entrada, saida, intervaloHoras, ehFolga, ehFeriado]    *)
(* with the break in hundredths of an hour; settings is [salarioMensal]    *)
(* in cents, the only field of Settings the function reads.  The daily     *)
(* results are summed in 1/300 h, the rounded totals are in hundredths of  *)
(* an hour, the returned amounts in cents.                                 *)
(***************************************************************************)
\* Math.round(x * 100) / 100 for an amount of a[1] + a[2]/GrossDen cents,
\* in cents (an exact half as in MathRound)
RoundAmount(a) ==
    IF 2 * a[2] = GrossDen /\ ~tieUp THEN a[1]
    ELSE IF 2 * a[2] >= GrossDen THEN a[1] + 1 ELSE a[1]

\* the accumulators before the loop
NoTally ==
    [horasNormaisTotal |-> 0, horasExtra50Total |-> 0,
     horasExtra100Total |-> 0, diasRepouso |-> 0, diasUteis |-> 0]

\* the loop body leaving a day without both times out of the tallies
TallyDay_SkipUntimed(acc, day, jornadaPadraoHoras) ==
    LET resultado ==
            calculateDailyResult(day.entrada, day.saida, day.intervaloHoras,
                                 day.ehFeriado, day.ehFolga,
                                 jornadaPadraoHoras)
        timed == Len(day.entrada) # 0 /\ Len(day.saida) # 0
    IN  [horasNormaisTotal |-> acc.horasNormaisTotal + resultado.horasNormais,
         horasExtra50Total |-> acc.horasExtra50Total + resultado.horasExtra50,
         horasExtra100Total |->
             acc.horasExtra100Total + resultado.horasExtra100,
         diasRepouso |->
             IF timed /\ (day.ehFolga \/ day.ehFeriado)
             THEN acc.diasRepouso + 1 ELSE acc.diasRepouso,
         diasUteis |->
             IF timed /\ ~(day.ehFolga \/ day.ehFeriado)
             THEN acc.diasUteis + 1 ELSE acc.diasUteis]

\* the loop body assigning the 50% hours of the day to the accumulator
\* (= in place of +=)
TallyDay_Overwrite(acc, day, jornadaPadraoHoras) ==
    LET resultado ==
            calculateDailyResult(day.entrada, day.saida, day.intervaloHoras,
                                 day.ehFeriado, day.ehFolga,
                                 jornadaPadraoHoras)
    IN  [horasNormaisTotal |-> acc.horasNormaisTotal + resultado.horasNormais,
         horasExtra50Total |-> resultado.horasExtra50,
         horasExtra100Total |->
             acc.horasExtra100Total + resultado.horasExtra100,
         diasRepouso |->
             IF day.ehFolga \/ day.ehFeriado
             THEN acc.diasRepouso + 1 ELSE acc.diasRepouso,
         diasUteis |->
             IF day.ehFolga \/ day.ehFeriado
             THEN acc.diasUteis ELSE acc.diasUteis + 1]

\* one iteration of the loop over the days
TallyDay(acc, day, jornadaPadraoHoras) ==
    LET resultado ==
            calculateDailyResult(day.entrada, day.saida, day.intervaloHoras,
                                 day.ehFeriado, day.ehFolga,
                                 jornadaPadraoHoras)
    IN  [horasNormaisTotal |-> acc.horasNormaisTotal + resultado.horasNormais,
         horasExtra50Total |-> acc.horasExtra50Total + resultado.horasExtra50,
         horasExtra100Total |->
             acc.horasExtra100Total + resultado.horasExtra100,
         \* Conta dias de repouso (folgas e feriados)
         diasRepouso |->
             IF day.ehFolga \/ day.ehFeriado
             THEN acc.diasRepouso + 1 ELSE acc.diasRepouso,
         diasUteis |->
             IF day.ehFolga \/ day.ehFeriado
             THEN acc.diasUteis ELSE acc.diasUteis + 1]

\* the loop over days[i..], from the accumulators acc
RECURSIVE MonthLoop(_, _, _, _)
MonthLoop(days, i, acc, jornadaPadraoHoras) ==
    IF i > Len(days) THEN acc
    ELSE MonthLoop(days, i + 1, TallyDay(acc, days[i], jornadaPadraoHoras),
                   jornadaPadraoHoras)

\* the gross without the DSR
MonthValorBruto_NoDSR(salarioMensal, horasExtra50Total, horasExtra100Total, dsrTotal) ==
    LET valorHorasExtras == horasExtra50Total * (3 * salarioMensal)
                            + horasExtra100Total * (4 * salarioMensal)
    IN  <<salarioMensal + (valorHorasExtras \div GrossDen),
          valorHorasExtras % GrossDen>>

\* valorBruto = salarioMensal + valorHorasExtras50 + valorHorasExtras100
\* + dsrTotal, unrounded, in cents: the rates are salarioMensal / 220 * 1.5
\* = 3 * salarioMensal / 440 and salarioMensal / 220 * 2.0
\* = 4 * salarioMensal / 440 cents per hour, the hours are hundredths
MonthValorBruto(salarioMensal, horasExtra50Total, horasExtra100Total, dsrTotal) ==
    LET valorHoraExtra50 == 3 * salarioMensal
        valorHoraExtra100 == 4 * salarioMensal
        valorHorasExtras == horasExtra50Total * valorHoraExtra50
                            + horasExtra100Total * valorHoraExtra100
    IN  <<salarioMensal + dsrTotal + (valorHorasExtras \div GrossDen),
          valorHorasExtras % GrossDen>>

\* Arredonda totais para 2 casas decimais: the sums of the loop, in 1/300 h,
\* become totals in hundredths of an hour
RoundTotals(sums) ==
    [sums EXCEPT !.horasNormaisTotal = MathRound(@, 3),
                 !.horasExtra50Total = MathRound(@, 3),
                 !.horasExtra100Total = MathRound(@, 3)]

\* const dsrTotal = calculateDSR(...), added to the locals l
WithDsrTotal(l, salarioMensal) ==
    [dsrTotal |->
         calculateDSR(l.horasExtra50Total, l.horasExtra100Total,
                      3 * salarioMensal, 4 * salarioMensal,
                      l.diasRepouso, l.diasUteis)] @@ l

\* const valorBruto = ..., added to the locals l
WithValorBruto(l, salarioMensal) ==
    [valorBruto |->
         MonthValorBruto(salarioMensal, l.horasExtra50Total,
                         l.horasExtra100Total, l.dsrTotal)] @@ l

\* const descontoINSS = calculateINSS(valorBruto), added to the locals l
WithDescontoINSS(l) == [descontoINSS |-> calculateINSS(l.valorBruto)] @@ l

\* valorLiquido with the withholding added instead of subtracted
WithValorLiquido_PlusINSS(l) ==
    [valorLiquido |-> QAdd(QScale(1000, l.valorBruto), l.descontoINSS)] @@ l

\* const valorLiquido = valorBruto - descontoINSS, in thousandths of a cent
\* as descontoINSS, added to the locals l
WithValorLiquido(l) ==
    [valorLiquido |-> QSub(QScale(1000, l.valorBruto), l.descontoINSS)] @@ l

\* the local variables of calculateMonthlySummary when it returns; the
\* standard daily hours 220 / 30 are given in 1/300 h
MonthlySummaryLocals(days, settings) ==
    WithValorLiquido(
        WithDescontoINSS(
            WithValorBruto(
                WithDsrTotal(
                    RoundTotals(MonthLoop(days, 1, NoTally,
                                          (220 * 300) \div 30)),
                    settings.salarioMensal),
                settings.salarioMensal)))

\* the object returned from the locals l
MonthlySummaryReturn(l) ==
    [horasNormais |-> l.horasNormaisTotal,
     horasExtra50 |-> l.horasExtra50Total,
     horasExtra100 |-> l.horasExtra100Total,
     dsrTotal |-> MathRound(l.dsrTotal, 1),
     valorBruto |-> RoundAmount(l.valorBruto),
     descontoINSS |-> RoundINSS(l.descontoINSS),
     valorLiquido |-> RoundINSS(l.valorLiquido)]

calculateMonthlySummary(days, settings) ==
    MonthlySummaryReturn(MonthlySummaryLocals(days, settings))

(***************************************************************************)
(* payroll.ts                                                              *)
(* salaries and amounts in cents, hours in hundredths of an hour.          *)
(***************************************************************************)
\* calculateHourlyValue dropping the fraction of a cent instead of rounding
calculateHourlyValue_Truncated(salarioMensal) == salarioMensal \div 220

\* valorHora * 100 is salarioMensal / 220 cents for a salary in cents
calculateHourlyValue(salarioMensal) == MathRound(salarioMensal, 220)

\* the optional parameter descontoINSS of calculateMonthlyPayroll: absent, or
\* an amount in thousandths of a cent
Undefined == [defined |-> FALSE, value |-> 0]

Defined(v) == [defined |-> TRUE, value |-> v]

\* valorBruto of calculateMonthlyPayroll, unrounded, in cents: valorHora is
\* in cents, so an hour total in hundredths times valorHora * 1.5 is
\* 3 * valorHora / 200 cents, which is counted here in 1/GrossDen cent
PayrollValorBruto(monthSummary, salarioMensal) ==
    LET valorHora == calculateHourlyValue(salarioMensal)
        valorHorasExtras ==
            (GrossDen \div 200)
            * (monthSummary.horasExtra50 * (3 * valorHora)
               + monthSummary.horasExtra100 * (4 * valorHora))
    IN  <<salarioMensal + monthSummary.dsrTotal
              + (valorHorasExtras \div GrossDen),
          valorHorasExtras % GrossDen>>

\* calculateMonthlyPayroll testing the override for truth instead of
\* comparing it with undefined: an override of 0 counts as absent
calculateMonthlyPayroll_FalsyOverride(monthSummary, salarioMensal, descontoINSS) ==
    LET valorBruto == PayrollValorBruto(monthSummary, salarioMensal)
        inss == IF descontoINSS.defined /\ descontoINSS.value # 0
                THEN Whole(descontoINSS.value)
                ELSE Whole(1000 * monthSummary.descontoINSS)
        valorLiquido == QSub(QScale(1000, valorBruto), inss)
    IN  [bruto |-> RoundAmount(valorBruto),
         inss |-> RoundINSS(inss),
         liquido |-> RoundINSS(valorLiquido)]

\* inss and valorLiquido in thousandths of a cent, the returned values in
\* cents
calculateMonthlyPayroll(monthSummary, salarioMensal, descontoINSS) ==
    LET valorBruto == PayrollValorBruto(monthSummary, salarioMensal)
        inss == IF descontoINSS.defined
                THEN Whole(descontoINSS.value)
                ELSE Whole(1000 * monthSummary.descontoINSS)
        valorLiquido == QSub(QScale(1000, valorBruto), inss)
    IN  [bruto |-> RoundAmount(valorBruto),
         inss |-> RoundINSS(inss),
         liquido |-> RoundINSS(valorLiquido)]

\* calculateOvertimeBreakdown returning as total the sum of the two rounded
\* values
calculateOvertimeBreakdown_SumOfRounded(horasExtra50, horasExtra100, valorHora) ==
    [valorExtra50 |-> MathRound(horasExtra50 * (3 * valorHora), 200),
     valorExtra100 |-> MathRound(horasExtra100 * (4 * valorHora), 200),
     totalExtras |-> MathRound(horasExtra50 * (3 * valorHora), 200)
                     + MathRound(horasExtra100 * (4 * valorHora), 200)]

\* hours in hundredths of an hour and valorHora in cents: valorHora * 1.5
\* is 3 * valorHora halves of a cent, so the unrounded values are counted
\* in 1/200 cent; the returned values are in cents
calculateOvertimeBreakdown(horasExtra50, horasExtra100, valorHora) ==
    [valorExtra50 |-> MathRound(horasExtra50 * (3 * valorHora), 200),
     valorExtra100 |-> MathRound(horasExtra100 * (4 * valorHora), 200),
     totalExtras |-> MathRound(horasExtra50 * (3 * valorHora)
                               + horasExtra100 * (4 * valorHora), 200)]

(***************************************************************************)
(* ui/Layout.example.tsx: handleDayUpdate                                  *)
(* a day record of the user interface carries its date, identified by      *)
(* its calendar date: two dates have the same getTime() iff they are equal.*)
(***************************************************************************)
\* handleDayUpdate replacing only the first record of the date
handleDayUpdate_FirstOnly(prevDays, updatedDay) ==
    [i \in 1..Len(prevDays) |->
        IF /\ prevDays[i].date = updatedDay.date
           /\ \A j \in 1..(i - 1) : prevDays[j].date # updatedDay.date
        THEN updatedDay ELSE prevDays[i]]

\* prev.map(d => d.date.getTime() === updatedDay.date.getTime()
\*                ? updatedDay : d)
handleDayUpdate(prevDays, updatedDay) ==
    [i \in 1..Len(prevDays) |->
        IF prevDays[i].date = updatedDay.date THEN updatedDay
        ELSE prevDays[i]]

(***************************************************************************)
(* Numbers in text fields: parseFloat(s) and String(x).  A number is held  *)
(* in hundredths; the fields of the forms have at most two decimals.       *)
(***************************************************************************)
IsDigit(c) == \E i \in 1..10 : Digits[i] = c

\* the longest prefix of s of the shape digits [ "." digits ]
NumericPrefix(s) ==
    LET ok(n) == /\ \A i \in 1..n : IsDigit(s[i]) \/ s[i] = "."
                 /\ Cardinality({i \in 1..n : s[i] = "."}) <= 1
        n == CHOOSE k \in 0..Len(s) :
                ok(k) /\ \A j \in (k + 1)..Len(s) : ~ok(j)
    IN  SubSeq(s, 1, n)

\* parseFloat(s) in hundredths: NaN unless the prefix holds a digit
parseFloat(s) ==
    LET p == NumericPrefix(s)
        dots == {i \in 1..Len(p) : p[i] = "."}
        dot == IF dots = {} THEN Len(p) + 1 ELSE CHOOSE i \in dots : TRUE
        whole == SubSeq(p, 1, dot - 1)
        frac == SubSeq(p, dot + 1, Len(p))
        cents == ToNumber(SubSeq(frac \o <<"0", "0">>, 1, 2))
    IN  IF Len(whole) + Len(frac) = 0 THEN NaN
        ELSE ToNumber(whole) * 100 + cents

\* x || 0 for a number x: NaN and 0 are falsy
OrZero(x) == IF x = NaN \/ x = 0 THEN 0 ELSE x

\* String(k) for a natural number k
RECURSIVE IntString(_)
IntString(k) ==
    IF k < 10 THEN <<Digits[k + 1]>>
    ELSE IntString(k \div 10) \o <<Digits[(k % 10) + 1]>>

\* String(x) for x = n / 100 >= 0: no trailing zero, no "." for a whole x
NumberString(n) ==
    LET whole == IntString(n \div 100)
        d1 == Digits[((n % 100) \div 10) + 1]
        d2 == Digits[(n % 10) + 1]
    IN  IF n % 100 = 0 THEN whole
        ELSE IF n % 10 = 0 THEN whole \o <<".", d1>>
        ELSE whole \o <<".", d1, d2>>

(***************************************************************************)
(* core/holidays.ts and the calendar of Date.  A date is the record of     *)
(* its year, month (0-11) and day of the month.                            *)
(***************************************************************************)
NewDate(year, month, day) == [year |-> year, month |-> month, day |-> day]

\* the days of a month that are holidays
getHolidays(year, month) ==
    LET fixed == CASE month = 0 -> {1}
                   [] month = 3 -> {21, 23}
                   [] month = 4 -> {1, 26}
                   [] month = 7 -> {15}
                   [] month = 8 -> {7}
                   [] month = 9 -> {12}
                   [] month = 10 -> {2, 15, 20}
                   [] month = 11 -> {25}
                   [] OTHER -> {}
        movable == IF year # 2026 THEN {}
                   ELSE CASE month = 1 -> {17}
                          [] month = 3 -> {3}
                          [] month = 5 -> {4}
                          [] OTHER -> {}
    IN  fixed \cup movable

isHoliday(date) == date.day \in getHolidays(date.year, date.month)

\* date.getDay(): 0 for Sunday .. 6 for Saturday (Gregorian calendar)
getDay(date) ==
    LET shift == <<0, 3, 2, 5, 0, 3, 5, 1, 4, 6, 2, 4>>
        y == IF date.month < 2 THEN date.year - 1 ELSE date.year
    IN  (y + (y \div 4) - (y \div 100) + (y \div 400)
            + shift[date.month + 1] + date.day) % 7

\* new Date(year, month + 1, 0).getDate()
daysInMonth(year, month) ==
    IF month = 1
    THEN IF (year % 4 = 0 /\ year % 100 # 0) \/ year % 400 = 0
         THEN 29 ELSE 28
    ELSE IF month \in {3, 5, 8, 10} THEN 30 ELSE 31

weekDayMap(name) ==
    CASE name = "domingo" -> 0
      [] name = "segunda" -> 1
      [] name = "terca" -> 2
      [] name = "quarta" -> 3
      [] name = "quinta" -> 4
      [] name = "sexta" -> 5
      [] name = "sabado" -> 6

(***************************************************************************)
(* README.md: generateMonthDays, the days that App hands to Layout         *)
(***************************************************************************)
\* the days 1..lastDay of the month on the default times of the settings
MonthDays(year, month, lastDay, settings) ==
    [day \in 1..lastDay |->
        LET date == NewDate(year, month, day)
            isFolga == getDay(date) = weekDayMap(settings.folgaPadrao)
        IN  [date |-> date,
             entrada |-> IF isFolga THEN << >>
                         ELSE settings.horaEntradaPadrao,
             saida |-> IF isFolga THEN << >> ELSE settings.horaSaidaPadrao,
             intervaloHoras |-> IF isFolga THEN 0
                                ELSE settings.intervaloPadraoHoras,
             ehFolga |-> isFolga,
             ehFeriado |-> isHoliday(date)]]

generateMonthDays(year, month, settings) ==
    MonthDays(year, month, daysInMonth(year, month), settings)

(***************************************************************************)
(* ui/Layout.example.tsx: handleSettingsChange                             *)
(* settings are the settings Layout holds when the handler runs.           *)
(***************************************************************************)
\* the body of the map moving every non-rest day to the new default times
SettingsChangeDay_MoveAll(day, settings, newSettings) ==
    LET isFolga == getDay(day.date) = weekDayMap(newSettings.folgaPadrao)
    IN  [day EXCEPT
            !.ehFolga = isFolga,
            !.ehFeriado = isHoliday(day.date),
            !.entrada = IF isFolga THEN << >>
                        ELSE newSettings.horaEntradaPadrao,
            !.saida = IF isFolga THEN << >>
                      ELSE newSettings.horaSaidaPadrao,
            !.intervaloHoras = IF isFolga THEN 0
                               ELSE newSettings.intervaloPadraoHoras]

\* the body of prev.map(day => ...)
SettingsChangeDay(day, settings, newSettings) ==
    LET isFolga == getDay(day.date) = weekDayMap(newSettings.folgaPadrao)
        ehFeriado == isHoliday(day.date)
        statusMudou == day.ehFolga # isFolga \/ day.ehFeriado # ehFeriado
        isDefaultTime == /\ day.entrada = settings.horaEntradaPadrao
                         /\ day.saida = settings.horaSaidaPadrao
    IN  IF statusMudou
        THEN [day EXCEPT
                !.ehFolga = isFolga,
                !.ehFeriado = ehFeriado,
                !.entrada = IF isFolga THEN << >>
                            ELSE newSettings.horaEntradaPadrao,
                !.saida = IF isFolga THEN << >>
                          ELSE newSettings.horaSaidaPadrao,
                !.intervaloHoras = IF isFolga THEN 0
                                   ELSE newSettings.intervaloPadraoHoras]
        ELSE IF isDefaultTime /\ ~isFolga
        THEN [day EXCEPT !.entrada = newSettings.horaEntradaPadrao,
                         !.saida = newSettings.horaSaidaPadrao,
                         !.intervaloHoras = newSettings.intervaloPadraoHoras]
        ELSE day

\* the days after handleSettingsChange(newSettings)
handleSettingsChange(prevDays, settings, newSettings) ==
    [i \in 1..Len(prevDays) |->
        SettingsChangeDay(prevDays[i], settings, newSettings)]

(***************************************************************************)
(* Input domains.                                                          *)
(***************************************************************************)
\* the "HH:mm" string of hour h and minute m
TimeString(h, m) ==
    <<Digits[(h \div 10) + 1], Digits[(h % 10) + 1], ":",
      Digits[(m \div 10) + 1], Digits[(m % 10) + 1]>>

\* the clock times of a grid of hours and minutes, and the times of the
\* documented examples (time.ts:48-49): 08:00, 12:00 and 17:00
ClockTimes ==
    {TimeString(h, m) : h \in {x \in 0..23 : x % HourStep = 0},
                        m \in {x \in 0..59 : x % MinuteStep = 0}}
        \cup {TimeString(8, 0), TimeString(12, 0), TimeString(17, 0)}

\* a clock-in or clock-out field: a time, or the empty string
TimeFields == ClockTimes \cup {<< >>}

\* break durations, in hundredths of an hour
Breaks == {50 * b : b \in 0..MaxBreak}

\* standard daily hours in 1/300 h: 4.00, 7.33, 220/30 and 8.00
Jornadas == {1200, 2199, 2200, 2400}

\* gross amounts: near 0, near each bracket boundary, and on a coarse grid,
\* each with a fractional part of 0, 1/GrossDen, 1/2 or 1 - 1/GrossDen cent
GrossCents ==
    {c \in {b + d : b \in {0, 141200, 266668, 400003, 778602},
                    d \in (0 - MaxDelta)..MaxDelta} : c >= 0}
        \cup {k * GrossStep : k \in 0..MaxGrossK}

GrossFracs == {0, 1, GrossDen \div 2, GrossDen - 1}

Grosses == {<<c, f>> : c \in GrossCents, f \in GrossFracs}

\* overtime hour totals, in hundredths of an hour
HourTotals == {k * HoursStep : k \in 0..MaxHoursK}

\* monthly salaries, in cents
Salaries == {k * SalaryStep : k \in 0..MaxSalaryK}

\* valorHora * 1.5 and valorHora * 2.0 for valorHora = salarioMensal / 220,
\* in 1/440 cent per hour
Rates50 == {3 * sal : sal \in Salaries}

Rates100 == {4 * sal : sal \in Salaries}

\* salaries for calculateHourlyValue: the grid, the documented examples
\* 2200.00 and 3300.00 (payroll.ts:37-38), 100.00 and 101.00 whose hourly
\* values 0.4545.. and 0.4590.. round down and up, and 20.90 whose hourly
\* value is the exact half cent 0.095
HourlySalaries == Salaries \cup {2090, 10000, 10100, 220000, 330000}

\* summaries handed to calculateMonthlyPayroll on its own: hour totals in
\* hundredths of an hour and amounts in cents; valorBruto and valorLiquido
\* hold figures unrelated to the other fields
PayrollSummaries ==
    [horasNormais : {17600},
     horasExtra50 : {0, 250, 2499},
     horasExtra100 : {0, 800},
     dsrTotal : {0, 1234},
     valorBruto : {0, 999999},
     descontoINSS : {0, 825},
     valorLiquido : {0, 999999}]

\* salaries of 100.00, whose hourly value 0.4545.. is not a whole number of
\* cents, and of 110.00, whose hourly value is 0.50
MonthSalaries == {10000, 11000}

\* overrides of the withholding, in thousandths of a cent: none, 0, 0.015
\* (an exact half cent), 1.234 and 5.00
Overrides == {Undefined, Defined(0), Defined(1500), Defined(123400),
              Defined(500000)}

\* hour totals for calculateOvertimeBreakdown, in hundredths of an hour:
\* the documented 10 and 2 hours (payroll.ts:188), and totals with a
\* fraction
BreakdownHours50 == {0, 100, 250, 1000}

BreakdownHours100 == {0, 133, 200}

\* hourly values in cents: the documented 10.00, and 45.45, the hourly
\* value of a salary of 10000.00
BreakdownRates == {0, 1000, 4545}

\* day records for handleDayUpdate: a rest day without times, a day on the
\* times 08:00-17:00 with a 1 h break, and a holiday with the clock-in 09:00
\* and no clock-out
UpdateRecords(dates) ==
    {[date |-> d, entrada |-> << >>, saida |-> << >>, intervaloHoras |-> 0,
      ehFolga |-> TRUE, ehFeriado |-> FALSE] : d \in dates}
    \cup {[date |-> d, entrada |-> TimeString(8, 0),
           saida |-> TimeString(17, 0), intervaloHoras |-> 100,
           ehFolga |-> FALSE, ehFeriado |-> FALSE] : d \in dates}
    \cup {[date |-> d, entrada |-> TimeString(9, 0), saida |-> << >>,
           intervaloHoras |-> 50, ehFolga |-> FALSE, ehFeriado |-> TRUE] :
             d \in dates}

\* lists of up to MaxUpdateDays records of the first days of a month, the
\* same date may occur twice
UpdateLists ==
    UNION {[1..n -> UpdateRecords({NewDate(2026, 10, d) :
                                     d \in 1..MaxUpdateDays})] :
             n \in 0..MaxUpdateDays}

\* the settings of App (README.md:639-646), the salary in cents and the
\* break in hundredths of an hour
DefaultSettings ==
    [salarioMensal |-> 220000,
     horaEntradaPadrao |-> TimeString(8, 0),
     horaSaidaPadrao |-> TimeString(17, 0),
     intervaloPadraoHoras |-> 100,
     folgaPadrao |-> "domingo",
     escala |-> "6x1"]

\* settings a user can submit: other default times, break, rest day, salary
SubmittedSettings ==
    {[DefaultSettings EXCEPT !.horaEntradaPadrao = e, !.horaSaidaPadrao = x,
                             !.intervaloPadraoHoras = b, !.folgaPadrao = f,
                             !.salarioMensal = w] :
        e \in {TimeString(8, 0), TimeString(9, 0)},
        x \in {TimeString(17, 0), TimeString(18, 0)},
        b \in {50}, f \in {"domingo", "terca"}, w \in {250000}}

\* day records of 1-3 November 2026 (a Sunday, the holiday of a Monday, a
\* Tuesday) for handleSettingsChange: without times, on the default times,
\* and with an edited clock-in or clock-out, under every pair of flags
ChangeRecords ==
    {[date |-> NewDate(2026, 10, d), entrada |-> t[1], saida |-> t[2],
      intervaloHoras |-> IF t[1] = << >> THEN 0 ELSE 100,
      ehFolga |-> f, ehFeriado |-> h] :
        d \in 1..3,
        t \in {<< << >>, << >> >>,
               <<TimeString(8, 0), TimeString(17, 0)>>,
               <<TimeString(9, 0), TimeString(17, 0)>>,
               <<TimeString(8, 0), TimeString(18, 0)>>},
        f \in BOOLEAN, h \in BOOLEAN}

ChangeLists == UNION {[1..n -> ChangeRecords] : n \in 0..MaxChangeDays}

\* Layout holds the settings of App, or settings with the clock-in 09:00
SettingsChangeArgs ==
    [prevDays : ChangeLists,
     settings : {DefaultSettings,
                 [DefaultSettings EXCEPT
                    !.horaEntradaPadrao = TimeString(9, 0)]},
     newSettings : SubmittedSettings]

NoValue == [none |-> TRUE]

NoPrev == [set |-> FALSE]

DailyArgs ==
    [entrada : TimeFields, saida : TimeFields, intervaloHoras : Breaks,
     ehFeriado : BOOLEAN, ehFolga : BOOLEAN, jornadaPadraoHoras : Jornadas]

INSSArgs == [valorBruto : Grosses]

WorkedMinutesArgs ==
    [entrada : ClockTimes, saida : ClockTimes, intervaloHoras : Breaks]

HourlyValueArgs == [salarioMensal : HourlySalaries]

MonthlyPayrollArgs ==
    [monthSummary : PayrollSummaries, salarioMensal : MonthSalaries,
     descontoINSS : Overrides]

OvertimeBreakdownArgs ==
    [horasExtra50 : BreakdownHours50, horasExtra100 : BreakdownHours100,
     valorHora : BreakdownRates]

\* the updated day is of a date of the list or of the next date
DayUpdateArgs ==
    [prevDays : UpdateLists,
     updatedDay : UpdateRecords({NewDate(2026, 10, d) :
                                   d \in 1..(MaxUpdateDays + 1)})]

DSRArgs ==
    [horasExtra50Total : HourTotals, horasExtra100Total : HourTotals,
     valorHoraExtra50 : Rates50, valorHoraExtra100 : Rates100,
     diasRepouso : 0..MaxDays, diasUteis : 0..MaxDays]

(***************************************************************************)
(* The calls.  Init is a pending call of one of the functions with         *)
(* arguments drawn from its domain (pc = "call"); the function's action    *)
(* evaluates it and stores the value returned (pc = "done").  A returned   *)
(* call of calculateINSS can be followed by one more call of it, on any    *)
(* gross; prev then holds the argument and the value of the first call.    *)
(***************************************************************************)
InitDailyResult ==
    /\ fn = "calculateDailyResult"
    /\ args \in DailyArgs
    /\ tieUp = TRUE

InitINSS ==
    /\ fn = "calculateINSS"
    /\ args \in INSSArgs
    /\ tieUp = TRUE

InitDSR ==
    /\ fn = "calculateDSR"
    /\ args \in DSRArgs
    /\ tieUp \in BOOLEAN

InitWorkedMinutes ==
    /\ fn = "calculateWorkedMinutes"
    /\ args \in WorkedMinutesArgs
    /\ tieUp = TRUE

InitHourlyValue ==
    /\ fn = "calculateHourlyValue"
    /\ args \in HourlyValueArgs
    /\ tieUp \in BOOLEAN

InitMonthlyPayroll ==
    /\ fn = "calculateMonthlyPayroll"
    /\ args \in MonthlyPayrollArgs
    /\ tieUp \in BOOLEAN

InitOvertimeBreakdown ==
    /\ fn = "calculateOvertimeBreakdown"
    /\ args \in OvertimeBreakdownArgs
    /\ tieUp \in BOOLEAN

InitDayUpdate ==
    /\ fn = "handleDayUpdate"
    /\ args \in DayUpdateArgs
    /\ tieUp = TRUE

InitSettingsChange ==
    /\ fn = "handleSettingsChange"
    /\ args \in SettingsChangeArgs
    /\ tieUp = TRUE

\* no component of the user interface is mounted
UIAbsent ==
    /\ appSettings = NoValue
    /\ layoutDays = << >>
    /\ rows = << >>

Init ==
    /\ pc = "call"
    /\ ret = NoValue
    /\ prev = NoPrev
    /\ locals = NoValue
    /\ UIAbsent
    /\ \/ InitDailyResult
       \/ InitINSS
       \/ InitDSR
       \/ InitWorkedMinutes
       \/ InitHourlyValue
       \/ InitMonthlyPayroll
       \/ InitOvertimeBreakdown
       \/ InitDayUpdate
       \/ InitSettingsChange

CallDailyResult ==
    /\ pc = "call"
    /\ fn = "calculateDailyResult"
    /\ ret' = calculateDailyResult(args.entrada, args.saida,
                                   args.intervaloHoras, args.ehFeriado,
                                   args.ehFolga, args.jornadaPadraoHoras)
    /\ pc' = "done"
    /\ UNCHANGED <<fn, args, prev, locals, tieUp>>
    /\ UNCHANGED uiVars

CallINSS ==
    /\ pc = "call"
    /\ fn = "calculateINSS"
    /\ ret' = calculateINSS(args.valorBruto)
    /\ pc' = "done"
    /\ UNCHANGED <<fn, args, prev, locals, tieUp>>
    /\ UNCHANGED uiVars

CallINSSAgain ==
    /\ pc = "done"
    /\ fn = "calculateINSS"
    /\ ~prev.set
    /\ \E valorBruto \in Grosses :
        /\ prev' = [set |-> TRUE, valorBruto |-> args.valorBruto, inss |-> ret]
        /\ args' = [valorBruto |-> valorBruto]
        /\ ret' = calculateINSS(valorBruto)
    /\ UNCHANGED <<pc, fn, locals, tieUp>>
    /\ UNCHANGED uiVars

CallDSR ==
    /\ pc = "call"
    /\ fn = "calculateDSR"
    /\ ret' = calculateDSR(args.horasExtra50Total, args.horasExtra100Total,
                           args.valorHoraExtra50, args.valorHoraExtra100,
                           args.diasRepouso, args.diasUteis)
    /\ pc' = "done"
    /\ UNCHANGED <<fn, args, prev, locals, tieUp>>
    /\ UNCHANGED uiVars

CallWorkedMinutes ==
    /\ pc = "call"
    /\ fn = "calculateWorkedMinutes"
    /\ ret' = calculateWorkedMinutes(args.entrada, args.saida,
                                     args.intervaloHoras)
    /\ pc' = "done"
    /\ UNCHANGED <<fn, args, prev, locals, tieUp>>
    /\ UNCHANGED uiVars

CallHourlyValue ==
    /\ pc = "call"
    /\ fn = "calculateHourlyValue"
    /\ ret' = calculateHourlyValue(args.salarioMensal)
    /\ pc' = "done"
    /\ UNCHANGED <<fn, args, prev, locals, tieUp>>
    /\ UNCHANGED uiVars

CallMonthlyPayroll ==
    /\ pc = "call"
    /\ fn = "calculateMonthlyPayroll"
    /\ ret' = calculateMonthlyPayroll(args.monthSummary, args.salarioMensal,
                                      args.descontoINSS)
    /\ pc' = "done"
    /\ UNCHANGED <<fn, args, prev, locals, tieUp>>
    /\ UNCHANGED uiVars

CallOvertimeBreakdown ==
    /\ pc = "call"
    /\ fn = "calculateOvertimeBreakdown"
    /\ ret' = calculateOvertimeBreakdown(args.horasExtra50, args.horasExtra100,
                                         args.valorHora)
    /\ pc' = "done"
    /\ UNCHANGED <<fn, args, prev, locals, tieUp>>
    /\ UNCHANGED uiVars

CallDayUpdate ==
    /\ pc = "call"
    /\ fn = "handleDayUpdate"
    /\ ret' = handleDayUpdate(args.prevDays, args.updatedDay)
    /\ pc' = "done"
    /\ UNCHANGED <<fn, args, prev, locals, tieUp>>
    /\ UNCHANGED uiVars

CallSettingsChange ==
    /\ pc = "call"
    /\ fn = "handleSettingsChange"
    /\ ret' = handleSettingsChange(args.prevDays, args.settings,
                                   args.newSettings)
    /\ pc' = "done"
    /\ UNCHANGED <<fn, args, prev, locals, tieUp>>
    /\ UNCHANGED uiVars

Next ==
    \/ CallDailyResult
    \/ CallINSS
    \/ CallINSSAgain
    \/ CallDSR
    \/ CallWorkedMinutes
    \/ CallHourlyValue
    \/ CallMonthlyPayroll
    \/ CallOvertimeBreakdown
    \/ CallDayUpdate
    \/ CallSettingsChange

Spec == Init /\ [][Next]_vars

(***************************************************************************)
(* The month: calculateMonthlySummary is called on a list of day records   *)
(* and the settings, and calculateMonthlyPayroll is then called on the     *)
(* summary it returned with the same salary, as Summary.tsx and the        *)
(* documentation of calculateMonthlyPayroll do.                            *)
(***************************************************************************)
\* the times of a day: 08:00-17:00 with a 1 h break (8.00 h, above the
\* standard 220/30 h), 08:00-12:00 without a break (4.00 h, below it), and
\* a day without times
MonthShifts ==
    {[entrada |-> TimeString(8, 0), saida |-> TimeString(17, 0),
      intervaloHoras |-> 100],
     [entrada |-> TimeString(8, 0), saida |-> TimeString(12, 0),
      intervaloHoras |-> 0],
     [entrada |-> << >>, saida |-> << >>, intervaloHoras |-> 100]}

DayRecord(shift, ehFolga, ehFeriado) ==
    [entrada |-> shift.entrada, saida |-> shift.saida,
     intervaloHoras |-> shift.intervaloHoras,
     ehFolga |-> ehFolga, ehFeriado |-> ehFeriado]

\* a day without times is an ordinary day or a rest day
DayRecords ==
    {DayRecord(sh, fo, fe) : sh \in MonthShifts, fo \in BOOLEAN,
                             fe \in BOOLEAN}
    \ {d \in {DayRecord(sh, fo, TRUE) : sh \in MonthShifts,
                                        fo \in BOOLEAN} :
           Len(d.entrada) = 0}

DayLists == UNION {[1..n -> DayRecords] : n \in 0..MaxMonthDays}

MonthlySummaryArgs ==
    [days : DayLists, settings : [salarioMensal : MonthSalaries]]

\* the overrides of the follow-up call: none, 0 and 5.00
MonthOverrides == {Undefined, Defined(0), Defined(500000)}

InitMonth ==
    /\ pc = "call"
    /\ fn = "calculateMonthlySummary"
    /\ args \in MonthlySummaryArgs
    /\ ret = NoValue
    /\ prev = NoPrev
    /\ locals = NoValue
    /\ tieUp \in BOOLEAN
    /\ UIAbsent

CallMonthlySummary ==
    /\ pc = "call"
    /\ fn = "calculateMonthlySummary"
    /\ ret' = calculateMonthlySummary(args.days, args.settings)
    /\ locals' = MonthlySummaryLocals(args.days, args.settings)
    /\ pc' = "done"
    /\ UNCHANGED <<fn, args, prev, tieUp>>
    /\ UNCHANGED uiVars

\* calculateMonthlyPayroll(summary, settings.salarioMensal, override) on the
\* summary just returned; prev keeps the summary
CallMonthlyPayrollOnSummary ==
    /\ pc = "done"
    /\ fn = "calculateMonthlySummary"
    /\ \E descontoINSS \in MonthOverrides :
         /\ ret' = calculateMonthlyPayroll(ret, args.settings.salarioMensal,
                                           descontoINSS)
         /\ prev' = [set |-> TRUE, summary |-> ret,
                     descontoINSS |-> descontoINSS]
    /\ fn' = "calculateMonthlyPayroll"
    /\ UNCHANGED <<pc, args, locals, tieUp>>
    /\ UNCHANGED uiVars

NextMonth ==
    \/ CallMonthlySummary
    \/ CallMonthlyPayrollOnSummary

SpecMonth == InitMonth /\ [][NextMonth]_vars

(***************************************************************************)
(* The user interface: App holds the settings and renders Layout, which    *)
(* holds the days and renders one DayRow per day and the SettingsPanel.    *)
(* appSettings is the state of App, layoutDays the state of Layout,        *)
(* rows[i] the local state of the DayRow of day i.  One action is one      *)
(* event handler run to completion, with the state updates it queues.      *)
(* fn and args name the last submission of the settings form.              *)
(***************************************************************************)
\* useState of DayRow.tsx:56-59 for a row mounted on a day
MountRow(day) ==
    [isEditing |-> FALSE,
     editEntrada |-> day.entrada,
     editSaida |-> day.saida,
     editIntervalo |-> NumberString(day.intervaloHoras)]

\* what a user does to the inputs of a row: a later clock-in, a cleared
\* clock-out, a cleared break
EditEntradas == {TimeString(9, 0)}

EditSaidas == {<< >>}

EditIntervalos == {<< >>}

\* the fields of the settings form when it is saved: a later default
\* clock-in, the rest day kept or moved to Monday, a raise of the salary
SettingsForms ==
    [localEntrada : {TimeString(9, 0)},
     localSaida : {TimeString(17, 0)},
     localIntervalo : {<<"1">>},
     localFolga : {"domingo", "segunda"},
     localSalario : {<<"2", "5", "0", "0", ".", "5">>}]

\* App is mounted on November 2026 with its default settings; Layout takes
\* the generated days as its initial days and mounts a row on each
InitUI ==
    /\ pc = "mounted"
    /\ fn = "App"
    /\ args = NoValue
    /\ ret = NoValue
    /\ prev = NoPrev
    /\ locals = NoValue
    /\ tieUp = TRUE
    /\ appSettings = DefaultSettings
    /\ layoutDays = MonthDays(2026, 10, Min(daysInMonth(2026, 10), MaxUIDays),
                              DefaultSettings)
    /\ rows = [i \in 1..Len(layoutDays) |-> MountRow(layoutDays[i])]

\* the Editar button of row i, disabled on a rest day
StartEdit(i) ==
    /\ ~rows[i].isEditing
    /\ ~layoutDays[i].ehFolga
    /\ rows' = [rows EXCEPT ![i].isEditing = TRUE]
    /\ UNCHANGED <<appSettings, layoutDays>>
    /\ UNCHANGED <<pc, fn, args, ret, prev, locals, tieUp>>

\* the inputs of row i, shown in edit mode
SetEditEntrada(i, value) ==
    /\ rows[i].isEditing
    /\ rows' = [rows EXCEPT ![i].editEntrada = value]
    /\ UNCHANGED <<appSettings, layoutDays>>
    /\ UNCHANGED <<pc, fn, args, ret, prev, locals, tieUp>>

SetEditSaida(i, value) ==
    /\ rows[i].isEditing
    /\ rows' = [rows EXCEPT ![i].editSaida = value]
    /\ UNCHANGED <<appSettings, layoutDays>>
    /\ UNCHANGED <<pc, fn, args, ret, prev, locals, tieUp>>

SetEditIntervalo(i, value) ==
    /\ rows[i].isEditing
    /\ rows' = [rows EXCEPT ![i].editIntervalo = value]
    /\ UNCHANGED <<appSettings, layoutDays>>
    /\ UNCHANGED <<pc, fn, args, ret, prev, locals, tieUp>>

\* the Salvar button of row i, shown in edit mode
HandleSaveEdit(i) ==
    /\ rows[i].isEditing
    /\ LET updatedDay ==
             [layoutDays[i] EXCEPT
                !.entrada = rows[i].editEntrada,
                !.saida = rows[i].editSaida,
                !.intervaloHoras = OrZero(parseFloat(rows[i].editIntervalo))]
       IN  layoutDays' = handleDayUpdate(layoutDays, updatedDay)
    /\ rows' = [rows EXCEPT ![i].isEditing = FALSE]
    /\ UNCHANGED appSettings
    /\ UNCHANGED <<pc, fn, args, ret, prev, locals, tieUp>>

\* the Cancelar button of row i, shown in edit mode
HandleCancelEdit(i) ==
    /\ rows[i].isEditing
    /\ rows' = [rows EXCEPT ![i] = MountRow(layoutDays[i])]
    /\ UNCHANGED <<appSettings, layoutDays>>
    /\ UNCHANGED <<pc, fn, args, ret, prev, locals, tieUp>>

\* the Folga checkbox of row i, disabled in edit mode
HandleToggleFolga(i) ==
    /\ ~rows[i].isEditing
    /\ LET day == layoutDays[i]
           updatedDay ==
             [day EXCEPT
                !.ehFolga = ~day.ehFolga,
                !.entrada = IF ~day.ehFolga THEN << >> ELSE day.entrada,
                !.saida = IF ~day.ehFolga THEN << >> ELSE day.saida]
       IN  layoutDays' = handleDayUpdate(layoutDays, updatedDay)
    /\ UNCHANGED <<appSettings, rows>>
    /\ UNCHANGED <<pc, fn, args, ret, prev, locals, tieUp>>

\* the Feriado checkbox of row i, disabled in edit mode
HandleToggleFeriado(i) ==
    /\ ~rows[i].isEditing
    /\ LET day == layoutDays[i]
           updatedDay == [day EXCEPT !.ehFeriado = ~day.ehFeriado]
       IN  layoutDays' = handleDayUpdate(layoutDays, updatedDay)
    /\ UNCHANGED <<appSettings, rows>>
    /\ UNCHANGED <<pc, fn, args, ret, prev, locals, tieUp>>

\* newSettings of SettingsPanel.handleSave; settings is the prop of the
\* panel, the settings of App at the last render
FormSettings(settings, form) ==
    [settings EXCEPT
        !.horaEntradaPadrao = form.localEntrada,
        !.horaSaidaPadrao = form.localSaida,
        !.intervaloPadraoHoras = OrZero(parseFloat(form.localIntervalo)),
        !.folgaPadrao = form.localFolga,
        !.salarioMensal = OrZero(parseFloat(form.localSalario))]

\* the Salvar button of the settings form.  handleSave calls
\* onSettingsChange(newSettings), which is Layout.handleSettingsChange:
\* setSettings(newSettings) of App and the update of the days; then
\* onSalarioChange(salary), which is setSettings({...settings, salarioMensal})
\* of App on the settings Layout was rendered with.  Both calls of
\* setSettings pass a value, so the state of App is the value of the last.
HandleSave(form) ==
    LET settings == appSettings
        newSettings == FormSettings(settings, form)
        salario == OrZero(parseFloat(form.localSalario))
    IN  /\ layoutDays' = handleSettingsChange(layoutDays, settings,
                                              newSettings)
        /\ appSettings' = [settings EXCEPT !.salarioMensal = salario]
        /\ fn' = "handleSave"
        /\ args' = form
        /\ UNCHANGED rows
        /\ UNCHANGED <<pc, ret, prev, locals, tieUp>>

NextUI ==
    \/ \E i \in 1..Len(layoutDays) : StartEdit(i)
    \/ \E i \in 1..Len(layoutDays) : \E value \in EditEntradas :
         SetEditEntrada(i, value)
    \/ \E i \in 1..Len(layoutDays) : \E value \in EditSaidas :
         SetEditSaida(i, value)
    \/ \E i \in 1..Len(layoutDays) : \E value \in EditIntervalos :
         SetEditIntervalo(i, value)
    \/ \E i \in 1..Len(layoutDays) : HandleSaveEdit(i)
    \/ \E i \in 1..Len(layoutDays) : HandleCancelEdit(i)
    \/ \E i \in 1..Len(layoutDays) : HandleToggleFolga(i)
    \/ \E i \in 1..Len(layoutDays) : HandleToggleFeriado(i)
    \/ \E form \in SettingsForms : HandleSave(form)

SpecUI == InitUI /\ [][NextUI]_vars

(***************************************************************************)
(* Properties of calculateDailyResult.                                     *)
(***************************************************************************)
DailyDone == pc = "done" /\ fn = "calculateDailyResult"

TimesPresent == args.entrada # << >> /\ args.saida # << >>

\* the worked hours of the day of the current call, in 1/300 h
WorkedHours ==
    minutesToDecimalHours(
        calculateWorkedMinutes(args.entrada, args.saida, args.intervaloHoras))

\* C1: on a holiday with both times present, all the worked hours are
\* 100%-premium hours and the other two buckets are 0, whatever the rest-day
\* flag and the standard daily hours are
C1_HolidayAllPremium100 ==
    (DailyDone /\ TimesPresent /\ args.ehFeriado)
        => ret = DailyHoursResult(0, 0, WorkedHours)

\* a holiday that is also the rest day, worked from 08:00 to 12:00 without a
\* break: 4.00 hours, all returned as 100% hours
C1_Witness ==
    /\ DailyDone /\ args.ehFeriado /\ args.ehFolga
    /\ args.entrada = TimeString(8, 0) /\ args.saida = TimeString(12, 0)
    /\ args.intervaloHoras = 0
    /\ ret = DailyHoursResult(0, 0, 4 * 300)

C3_RestDayAllPremium50 ==
    (DailyDone /\ TimesPresent /\ ~args.ehFeriado /\ args.ehFolga)
        => ret = DailyHoursResult(0, WorkedHours, 0)

\* a worked rest day shorter than the standard daily hours
C3_Witness ==
    /\ DailyDone /\ TimesPresent /\ ~args.ehFeriado /\ args.ehFolga
    /\ WorkedHours > 0 /\ WorkedHours < args.jornadaPadraoHoras
    /\ ret.horasExtra50 = WorkedHours

\* C4: when clock-in or clock-out is the empty string the three buckets are
\* 0, whatever the other arguments are
C4_EmptyTimeAllZero ==
    (DailyDone /\ (args.entrada = << >> \/ args.saida = << >>))
        => ret = DailyHoursResult(0, 0, 0)

\* a holiday with a clock-in but no clock-out, returned as zeros
C4_Witness ==
    /\ DailyDone /\ args.entrada # << >> /\ args.saida = << >>
    /\ args.ehFeriado /\ args.intervaloHoras > 0
    /\ ret = DailyHoursResult(0, 0, 0)

\* C5: on an ordinary day the first 2 hours (600 units of 1/300 h) beyond the
\* standard daily hours are 50%-premium hours and every hour beyond those is
\* a 100%-premium hour
C5_TwoHourEscalation ==
    (DailyDone /\ TimesPresent /\ ~args.ehFeriado /\ ~args.ehFolga
        /\ WorkedHours > args.jornadaPadraoHoras)
        => /\ ret.horasExtra50 =
                  Min(WorkedHours - args.jornadaPadraoHoras, 600)
           /\ ret.horasExtra100 =
                  Max(0, WorkedHours - args.jornadaPadraoHoras - 600)

(***************************************************************************)
(* Properties of calculateINSS.                                            *)
(***************************************************************************)
INSSDone == pc = "done" /\ fn = "calculateINSS"

\* two calls of calculateINSS have returned: prev holds the first one
INSSPair == INSSDone /\ prev.set

\* the part of the gross g lying in the bracket (lo, hi], in cents
BracketSlice(g, lo, hi) ==
    IF QLeq(g, Whole(lo)) THEN Whole(0)
    ELSE QSub(IF QLeq(g, Whole(hi)) THEN g ELSE Whole(hi), Whole(lo))

\* the progressive-bracket reference: each rate applied to the slice of the
\* gross in its bracket, nothing on the part above 7786.02
INSSReference(g) ==
    QAdd(QAdd(QScale(75, BracketSlice(g, 0, 141200)),
              QScale(90, BracketSlice(g, 141200, 266668))),
         QAdd(QScale(120, BracketSlice(g, 266668, 400003)),
              QScale(140, BracketSlice(g, 400003, 778602))))

C7_BoundaryValues ==
    /\ (INSSDone /\ args.valorBruto = Whole(141200))
           => RoundINSS(ret) = 10590
    /\ (INSSDone /\ args.valorBruto = Whole(266668))
           => RoundINSS(ret) = 21882

\* the withholding on 2666.68 has been computed
C7_Witness ==
    /\ INSSDone
    /\ args.valorBruto = Whole(266668)
    /\ RoundINSS(ret) = 21882

\* C7 as stated: the withholding on a gross of exactly 1412.00 is 105.90, and
\* the withholding on a gross of exactly 2666.68, rounded to 2 decimals, is
\* 228.69
C7_Original ==
    /\ (INSSDone /\ args.valorBruto = Whole(141200))
           => ret = Whole(10590000)
    /\ (INSSDone /\ args.valorBruto = Whole(266668))
           => RoundINSS(ret) = 22869

\* C8: calculateINSS is monotonically non-decreasing: of two calls, the one
\* on the smaller gross returns the smaller or equal withholding
C8_Monotonic ==
    INSSPair
        => /\ QLeq(prev.valorBruto, args.valorBruto) => QLeq(prev.inss, ret)
           /\ QLeq(args.valorBruto, prev.valorBruto) => QLeq(ret, prev.inss)

\* a gross below the ceiling followed by a gross above it, and a larger
\* withholding for the second
C8_Witness ==
    /\ INSSPair
    /\ QLeq(prev.valorBruto, Whole(778602))
    /\ ~QLeq(args.valorBruto, Whole(778602))
    /\ QLeq(prev.inss, ret) /\ prev.inss # ret

\* C9: for every gross above 7786.02 calculateINSS returns what it returns
\* for 7786.02
C9_Ceiling ==
    (INSSPair /\ prev.valorBruto = Whole(778602)
        /\ ~QLeq(args.valorBruto, Whole(778602)))
        => ret = prev.inss

\* the withholding on 7786.02 followed by the withholding on 9000.00
C9_Witness ==
    /\ INSSPair
    /\ prev.valorBruto = Whole(778602)
    /\ args.valorBruto = Whole(9 * GrossStep)
    /\ ret = prev.inss
    /\ RoundINSS(ret) > 0

(***************************************************************************)
(* Properties of calculateDSR.                                             *)
(***************************************************************************)
DSRDone == pc = "done" /\ fn = "calculateDSR"

\* (h50*r50 + h100*r100) * restDays, in 1/GrossDen cent
DSRNumerator ==
    (args.horasExtra50Total * args.valorHoraExtra50
     + args.horasExtra100Total * args.valorHoraExtra100) * args.diasRepouso

\* C10: calculateDSR returns 0 when restDays = 0 or workingDays = 0, and
\* otherwise (h50*r50 + h100*r100) * restDays / workingDays rounded to 2
\* decimals: a number of cents r with r - 1/2 <= value <= r + 1/2
C10_DSRValue ==
    DSRDone
        => IF args.diasRepouso = 0 \/ args.diasUteis = 0
           THEN ret = 0
           ELSE LET den == GrossDen * args.diasUteis
                IN  /\ (2 * ret - 1) * den <= 2 * DSRNumerator
                    /\ 2 * DSRNumerator <= (2 * ret + 1) * den

\* a DSR with more working days than rest days whose exact value is not a
\* whole number of cents
C10_Witness ==
    /\ DSRDone
    /\ args.diasRepouso > 0
    /\ args.diasUteis > args.diasRepouso
    /\ ret > 0
    /\ DSRNumerator % (GrossDen * args.diasUteis) # 0

(***************************************************************************)
(* Properties of calculateWorkedMinutes.                                   *)
(***************************************************************************)
WorkedMinutesDone == pc = "done" /\ fn = "calculateWorkedMinutes"

\* the minute of the day that the "HH:mm" string s writes
MinuteOfDay(s) ==
    LET hm == CHOOSE x \in (0..23) \X (0..59) : TimeString(x[1], x[2]) = s
    IN  hm[1] * 60 + hm[2]

\* clock-out minus clock-in of the current call, in minutes
Span == MinuteOfDay(args.saida) - MinuteOfDay(args.entrada)

\* C11: calculateWorkedMinutes returns max(0, (out - in) - break * 60) (here
\* in fifths of a minute, the break in hundredths of an hour): never a
\* negative number, and 0 whenever the break is at least as long as the
\* span, also when clock-out is earlier than clock-in
C11_WorkedMinutesClamped ==
    WorkedMinutesDone
        => /\ ret = Max(0, 5 * Span - 3 * args.intervaloHoras)
           /\ ret >= 0
           /\ (3 * args.intervaloHoras >= 5 * Span) => ret = 0

\* a clock-out earlier than the clock-in, with a break: 0 minutes
C11_Witness ==
    /\ WorkedMinutesDone
    /\ Span < 0
    /\ args.intervaloHoras > 0
    /\ ret = 0

\* C19: calculateDailyResult("08:00", "17:00", 1, false, false, 7.33)
\* computes 8.00 worked hours and returns 7.33 normal hours, 0.67 hours at
\* 50% and 0 hours at 100%
C19_Scenario1 ==
    (DailyDone
        /\ args.entrada = TimeString(8, 0) /\ args.saida = TimeString(17, 0)
        /\ args.intervaloHoras = 100
        /\ ~args.ehFeriado /\ ~args.ehFolga
        /\ args.jornadaPadraoHoras = 733 * 3)
        => /\ WorkedHours = 800 * 3
           /\ ret = DailyHoursResult(733 * 3, 67 * 3, 0)

\* the call of scenario 1 has returned
C19_Witness ==
    /\ DailyDone
    /\ args.entrada = TimeString(8, 0) /\ args.saida = TimeString(17, 0)
    /\ args.intervaloHoras = 100
    /\ ~args.ehFeriado /\ ~args.ehFolga
    /\ args.jornadaPadraoHoras = 733 * 3
    /\ ret.horasExtra50 = 67 * 3

(***************************************************************************)
(* Properties of calculateHourlyValue.                                     *)
(***************************************************************************)
HourlyValueDone == pc = "done" /\ fn = "calculateHourlyValue"

TwoDecimals(h) == h % 3 = 0

\* Math.round(h * 100) / 100 on an hour value in 1/300 h
Round2Hours(h) == 3 * MathRound(h, 3)

Round2Idempotent(h) == Round2Hours(Round2Hours(h)) = Round2Hours(h)

\* the current call is an ordinary day whose worked hours exceed the
\* standard daily hours
OrdinaryOvertime ==
    /\ TimesPresent
    /\ ~args.ehFeriado /\ ~args.ehFolga
    /\ WorkedHours > args.jornadaPadraoHoras

PayrollDone == pc = "done" /\ fn = "calculateMonthlyPayroll"

\* c is a rounding to cents of n / d cents: c - 1/2 <= n / d <= c + 1/2
RoundsTo(c, n, d) == (2 * c - 1) * d <= 2 * n /\ 2 * n <= (2 * c + 1) * d

\* the withholding that the current call of calculateMonthlyPayroll has to
\* use, in thousandths of a cent
PayrollWithholding ==
    IF args.descontoINSS = Undefined
    THEN 1000 * args.monthSummary.descontoINSS
    ELSE args.descontoINSS.value

\* the gross recomputed from the hour totals of the summary, the hourly
\* value in cents and the summary's DSR, in 1/200 cent
PayrollGross200 ==
    LET valorHora == calculateHourlyValue(args.salarioMensal)
    IN  200 * (args.salarioMensal + args.monthSummary.dsrTotal)
        + args.monthSummary.horasExtra50 * 3 * valorHora
        + args.monthSummary.horasExtra100 * 4 * valorHora

SummaryDone == pc = "done" /\ fn = "calculateMonthlySummary"

\* the days of the current call that are rest days or holidays
RestDays == {i \in 1..Len(args.days) :
                args.days[i].ehFolga \/ args.days[i].ehFeriado}

\* C16: every day record is counted in exactly one of the two tallies, as
\* a rest day iff ehFolga or ehFeriado is true and as a working day
\* otherwise, whether or not the day has times; the tallies sum to the
\* number of day records and are the counts passed to calculateDSR
C16_DayTallies ==
    SummaryDone
        => /\ locals.diasRepouso = Cardinality(RestDays)
           /\ locals.diasUteis = Len(args.days) - Cardinality(RestDays)
           /\ locals.diasRepouso + locals.diasUteis = Len(args.days)
           /\ ret.dsrTotal =
                calculateDSR(ret.horasExtra50, ret.horasExtra100,
                             3 * args.settings.salarioMensal,
                             4 * args.settings.salarioMensal,
                             Cardinality(RestDays),
                             Len(args.days) - Cardinality(RestDays))

\* a rest day without times and a working day without times are counted,
\* next to a day with overtime that gives a DSR
C16_Witness ==
    /\ SummaryDone
    /\ \E i, j \in 1..Len(args.days) :
         /\ Len(args.days[i].entrada) = 0 /\ args.days[i].ehFolga
         /\ Len(args.days[j].entrada) = 0 /\ ~args.days[j].ehFolga
    /\ locals.diasRepouso >= 1
    /\ locals.diasUteis >= 2
    /\ ret.dsrTotal > 0

\* the sum over the days of the current call of one bucket of the daily
\* results for the 220/30 standard hours, in 1/300 h
RECURSIVE BucketSum(_, _)
BucketSum(bucket, n) ==
    IF n = 0 THEN 0
    ELSE LET day == args.days[n]
         IN  BucketSum(bucket, n - 1)
             + calculateDailyResult(day.entrada, day.saida,
                                    day.intervaloHoras, day.ehFeriado,
                                    day.ehFolga, 2200)[bucket]

\* h hundredths of an hour is a rounding of sum / 300 hours
RoundedTotal(h, sum) == 6 * h - 3 <= 2 * sum /\ 2 * sum <= 6 * h + 3

\* the value of the overtime of the returned totals at salarioMensal / 220
\* * 1.5 and salarioMensal / 220 * 2.0 per hour, in 1/GrossDen cent
OvertimeValue ==
    ret.horasExtra50 * 3 * args.settings.salarioMensal
    + ret.horasExtra100 * 4 * args.settings.salarioMensal

\* salarioMensal + H50 * rate50 + H100 * rate100 + dsr, unrounded
ExactGross ==
    <<args.settings.salarioMensal + ret.dsrTotal
          + (OvertimeValue \div GrossDen),
      OvertimeValue % GrossDen>>

\* c cents is a rounding of the amount a[1] + a[2]/GrossDen cents
RoundsAmount(c, a) ==
    \/ c = a[1] /\ 2 * a[2] <= GrossDen
    \/ c = a[1] + 1 /\ 2 * a[2] >= GrossDen

\* c cents is a rounding of a[1] + a[2]/GrossDen thousandths of a cent
RoundsMilli(c, a) ==
    /\ 1000 * c - 500 <= a[1]
    /\ a[1] < 1000 * c + 500 \/ (a[1] = 1000 * c + 500 /\ a[2] = 0)

\* C12: the valorBruto returned by calculateMonthlySummary is
\* round2(salarioMensal + H50 * (salarioMensal / 220 * 1.5)
\* + H100 * (salarioMensal / 220 * 2.0) + dsr) for the rounded bucket totals
\* H50 and H100, the unrounded hourly rate and the dsr that calculateDSR
\* returns for those totals and rates; descontoINSS is round2 of
\* calculateINSS of that unrounded gross
C12_GrossAndWithholding ==
    SummaryDone
        => /\ RoundedTotal(ret.horasExtra50,
                           BucketSum("horasExtra50", Len(args.days)))
           /\ RoundedTotal(ret.horasExtra100,
                           BucketSum("horasExtra100", Len(args.days)))
           /\ ret.dsrTotal =
                calculateDSR(ret.horasExtra50, ret.horasExtra100,
                             3 * args.settings.salarioMensal,
                             4 * args.settings.salarioMensal,
                             locals.diasRepouso, locals.diasUteis)
           /\ locals.valorBruto = ExactGross
           /\ RoundsAmount(ret.valorBruto, ExactGross)
           /\ RoundsMilli(ret.descontoINSS, calculateINSS(ExactGross))

\* a month with hours in both premium buckets, a DSR, and a gross that is
\* not a whole number of cents before the rounding
C12_Witness ==
    /\ SummaryDone
    /\ ret.horasExtra50 > 0
    /\ ret.horasExtra100 > 0
    /\ ret.dsrTotal > 0
    /\ ExactGross[2] # 0
    /\ ret.valorBruto = ExactGross[1] + 1

(***************************************************************************)
(* The summary and the payroll recomputed from it.                         *)
(***************************************************************************)
RecomputedDone == pc = "done" /\ fn = "calculateMonthlyPayroll" /\ prev.set

\* C13: the gross recomputed by calculateMonthlyPayroll(summary,
\* settings.salarioMensal, override) from the summary that
\* calculateMonthlySummary(days, settings) returned equals
\* summary.valorBruto, for every override and for none
C13_RecomputedGross ==
    RecomputedDone => ret.bruto = prev.summary.valorBruto

\* C14: in every summary returned by calculateMonthlySummary, valorLiquido
\* equals valorBruto minus descontoINSS to the cent
C14_NetIsGrossMinusWithholding ==
    SummaryDone => ret.valorLiquido = ret.valorBruto - ret.descontoINSS

(***************************************************************************)
(* Properties of calculateOvertimeBreakdown.                               *)
(***************************************************************************)
BreakdownDone == pc = "done" /\ fn = "calculateOvertimeBreakdown"

\* C21: calculateOvertimeBreakdown returns valorExtra50 = round2(h50 * rate
\* * 1.5), valorExtra100 = round2(h100 * rate * 2.0) and totalExtras =
\* round2 of the unrounded sum of the two; for 10 hours, 2 hours and 10.00
\* it returns 150.00, 40.00 and 190.00
C21_OvertimeBreakdown ==
    BreakdownDone
        => /\ RoundsTo(ret.valorExtra50,
                       args.horasExtra50 * args.valorHora * 3, 200)
           /\ RoundsTo(ret.valorExtra100,
                       args.horasExtra100 * args.valorHora * 4, 200)
           /\ RoundsTo(ret.totalExtras,
                       args.horasExtra50 * args.valorHora * 3
                       + args.horasExtra100 * args.valorHora * 4, 200)
           /\ (args.horasExtra50 = 1000 /\ args.horasExtra100 = 200
               /\ args.valorHora = 1000)
                => ret = [valorExtra50 |-> 15000, valorExtra100 |-> 4000,
                          totalExtras |-> 19000]

\* the documented call has returned
C21_Witness ==
    /\ BreakdownDone
    /\ args.horasExtra50 = 1000 /\ args.horasExtra100 = 200
    /\ args.valorHora = 1000
    /\ ret.totalExtras = 19000

\* C29: the totalExtras returned by calculateOvertimeBreakdown equals the
\* sum of the returned valorExtra50 and valorExtra100
C29_TotalIsSumOfParts ==
    BreakdownDone => ret.totalExtras = ret.valorExtra50 + ret.valorExtra100

\* C27: for every call of calculateDailyResult with both times present, the
\* three buckets are >= 0 and add up to the worked hours of the day
C27_BucketsPartitionWorkedHours ==
    (DailyDone /\ TimesPresent)
        => /\ ret.horasNormais >= 0
           /\ ret.horasExtra50 >= 0
           /\ ret.horasExtra100 >= 0
           /\ ret.horasNormais + ret.horasExtra50 + ret.horasExtra100
                = WorkedHours

\* an ordinary day whose worked hours are split over two buckets
C27_Witness ==
    /\ DailyDone
    /\ TimesPresent
    /\ ret.horasNormais > 0
    /\ ret.horasExtra50 > 0
    /\ ret.horasNormais + ret.horasExtra50 = WorkedHours

(***************************************************************************)
(* Order of the day records.                                               *)
(***************************************************************************)
\* the list days in the order p
Permuted(days, p) == [i \in 1..Len(days) |-> days[p[i]]]

\* C28: calculateMonthlySummary does not depend on the order of the day
\* records: the summary of every permutation of the list equals the
\* summary of the list, field by field
C28_OrderIndependent ==
    SummaryDone
        => \A p \in Permutations(1..Len(args.days)) :
             calculateMonthlySummary(Permuted(args.days, p), args.settings)
                = ret

\* a list of three different days, with hours in every bucket and a DSR
C28_Witness ==
    /\ SummaryDone
    /\ Len(args.days) = 3
    /\ args.days[1] # args.days[2]
    /\ args.days[2] # args.days[3]
    /\ args.days[1] # args.days[3]
    /\ ret.horasNormais > 0
    /\ ret.horasExtra50 > 0
    /\ ret.horasExtra100 > 0
    /\ ret.dsrTotal > 0

\* C30: the summary returned by calculateMonthlySummary satisfies
\* valorBruto >= salarioMensal, dsrTotal >= 0,
\* 0 <= descontoINSS <= valorBruto and 0 <= valorLiquido <= valorBruto
C30_SummaryRanges ==
    SummaryDone
        => /\ ret.valorBruto >= args.settings.salarioMensal
           /\ ret.dsrTotal >= 0
           /\ 0 <= ret.descontoINSS /\ ret.descontoINSS <= ret.valorBruto
           /\ 0 <= ret.valorLiquido /\ ret.valorLiquido <= ret.valorBruto

\* a month with overtime and a DSR: every inequality is strict
C30_Witness ==
    /\ SummaryDone
    /\ ret.dsrTotal > 0
    /\ ret.valorBruto > args.settings.salarioMensal + ret.dsrTotal
    /\ 0 < ret.descontoINSS
    /\ ret.valorLiquido < ret.valorBruto

(***************************************************************************)
(* Properties of Layout.handleDayUpdate.                                   *)
(***************************************************************************)
DayUpdateDone == pc = "done" /\ fn = "handleDayUpdate"

\* the positions of the list whose record has the date of the updated day
SameDate == {i \in 1..Len(args.prevDays) :
                args.prevDays[i].date = args.updatedDay.date}

\* C24: handleDayUpdate(updatedDay) replaces, as a whole record, exactly
\* the days whose date equals updatedDay.date and leaves every other
\* record, the number of records and their order unchanged; the list is
\* unchanged if no record has that date
C24_DayUpdateFrame ==
    DayUpdateDone
        => /\ Len(ret) = Len(args.prevDays)
           /\ \A i \in SameDate : ret[i] = args.updatedDay
           /\ \A i \in (1..Len(args.prevDays)) \ SameDate :
                ret[i] = args.prevDays[i]
           /\ SameDate = {} => ret = args.prevDays

\* two records of the date of the updated day and different from it: both
\* are replaced
C24_Witness ==
    /\ DayUpdateDone
    /\ Cardinality(SameDate) = 2
    /\ \A i \in SameDate : args.prevDays[i] # args.updatedDay
    /\ ret = <<args.updatedDay, args.updatedDay>>

(***************************************************************************)
(* Properties of Layout.handleSettingsChange.                              *)
(***************************************************************************)
SettingsChangeDone == pc = "done" /\ fn = "handleSettingsChange"

\* the date of a day falls on the rest day of the new settings
NewRestDay(day) == getDay(day.date) = weekDayMap(args.newSettings.folgaPadrao)

\* a day is on the default times Layout held before the change
OnPreviousDefaults(day) ==
    /\ day.entrada = args.settings.horaEntradaPadrao
    /\ day.saida = args.settings.horaSaidaPadrao

\* a day has the times and break of the new settings
OnNewDefaults(day) ==
    /\ day.entrada = args.newSettings.horaEntradaPadrao
    /\ day.saida = args.newSettings.horaSaidaPadrao
    /\ day.intervaloHoras = args.newSettings.intervaloPadraoHoras

\* C25: after handleSettingsChange(newSettings) every day has ehFolga =
\* (its weekday is the rest day of newSettings) and ehFeriado =
\* isHoliday(date); a day whose two flags already had those values and
\* whose clock-in or clock-out differs from the previous default times
\* keeps its clock-in, clock-out and break; a day that is not a rest day
\* under newSettings and was on the previous default times has the new
\* default times and break
C25_SettingsChangeDays ==
    SettingsChangeDone
        => /\ Len(ret) = Len(args.prevDays)
           /\ \A i \in 1..Len(ret) :
                LET day == args.prevDays[i]
                IN  /\ ret[i].date = day.date
                    /\ ret[i].ehFolga = NewRestDay(day)
                    /\ ret[i].ehFeriado = isHoliday(day.date)
                    /\ (/\ day.ehFolga = NewRestDay(day)
                        /\ day.ehFeriado = isHoliday(day.date)
                        /\ ~OnPreviousDefaults(day))
                            => /\ ret[i].entrada = day.entrada
                               /\ ret[i].saida = day.saida
                               /\ ret[i].intervaloHoras = day.intervaloHoras
                    /\ (~NewRestDay(day) /\ OnPreviousDefaults(day))
                            => OnNewDefaults(ret[i])

\* a Tuesday with the edited times 09:00-17:00 keeps them while the default
\* times become 08:00-18:00 and the rest day stays Sunday
C25_Witness ==
    /\ SettingsChangeDone
    /\ Len(ret) = 1
    /\ args.prevDays[1].date = NewDate(2026, 10, 3)
    /\ ~args.prevDays[1].ehFolga /\ ~args.prevDays[1].ehFeriado
    /\ args.settings = DefaultSettings
    /\ args.newSettings.horaSaidaPadrao = TimeString(18, 0)
    /\ args.newSettings.folgaPadrao = "domingo"
    /\ args.prevDays[1].entrada = TimeString(9, 0)
    /\ ret[1] = args.prevDays[1]

(***************************************************************************)
(* Properties of the user interface.                                       *)
(***************************************************************************)
\* C22: after the settings form is saved, the settings held by App have
\* default clock-in, default clock-out, default break, default rest day
\* and monthly salary equal to the submitted values
C22_SavedSettingsKept ==
    fn = "handleSave"
        => appSettings = FormSettings(appSettings, args)

\* C23: every day record has clock-in and clock-out either both empty or
\* both non-empty
C23_TimesBothOrNone ==
    \A i \in 1..Len(layoutDays) :
        (layoutDays[i].entrada = << >>) <=> (layoutDays[i].saida = << >>)

\* C26: every day record with ehFolga = true has empty clock-in and empty
\* clock-out
C26_RestDayHasNoTimes ==
    \A i \in 1..Len(layoutDays) :
        layoutDays[i].ehFolga
            => layoutDays[i].entrada = << >> /\ layoutDays[i].saida = << >>

====
